---- MODULE Spec2Model ----
(***************************************************************************)
(* merge_config_with_default of src/memos/mem_cube/utils.py, modelled on   *)
(* a heap of Python dict objects so that copies, aliases and in-place      *)
(* writes are distinguishable.                                             *)
(*                                                                         *)
(* A heap is a sequence of objects; an object is a function from keys to   *)
(* values; the value under a key of RefKeys is the address (index in the   *)
(* heap) of a nested object, every other value is a scalar written as a    *)
(* string ("True", "False", "None" or a name).                             *)
(***************************************************************************)
EXTENDS Naturals, Sequences, FiniteSets, TLC

VARIABLES heap,               \* the objects allocated so far
          existing_config,    \* address of the caller's existing record
          default_config,     \* address of the caller's default template
          calls,              \* number of merge calls made
          arg_existing,       \* address passed as existing_config to the latest call
          pre_existing,       \* value of that record at call entry
          pre_default,        \* value of the default template at call entry
          existing_dict,      \* locals of the latest call, as addresses
          default_dict,
          preserved_graph_db,
          merged_dict,
          outcome,            \* "none", "ok" or "ValidationError"
          merged_config       \* address of the returned record, NoRef if none

vars == <<heap, existing_config, default_config, calls, arg_existing,
          pre_existing, pre_default, existing_dict, default_dict,
          preserved_graph_db, merged_dict, outcome, merged_config>>

-----------------------------------------------------------------------------
(* Bounds and value sets *)

\* How many times the merge is run in a row (the first call on the caller's
\* records, every later one on the previous result and the same default).
MaxCalls == 2

NoRef == 0   \* Python None where a reference is expected; also an empty dict never written

Absent == "<absent>"   \* marks a key the input dict does not have

RefKeys == {"act_mem", "text_mem", "config", "graph_db"}

-----------------------------------------------------------------------------
(* Python dict primitives on the heap *)

keys(h, a) == IF a = NoRef THEN {} ELSE DOMAIN h[a]

\* d[k]
getitem(h, a, k) == h[a][k]

\* d.get(k, dflt)
get(h, a, k, dflt) == IF k \in keys(h, a) THEN h[a][k] ELSE dflt

\* d[k] = v, in place
setitem(h, a, k, v) == [h EXCEPT ![a] = (k :> v) @@ h[a]]

\* bool(v) for the scalars of the model
truthy(v) == v \notin {"False", "None", ""}

\* f itself (f @@ <<>> = f), built as an explicit function.
Fn(f) == f @@ <<>>

\* The value of the object graph rooted at a, as a nested function.
RECURSIVE Tree(_, _)
Tree(h, a) ==
    IF a = NoRef THEN <<>>
    ELSE Fn([k \in DOMAIN h[a] |-> IF k \in RefKeys THEN Tree(h, h[a][k]) ELSE h[a][k]])

\* Allocate fresh objects holding the nested value t; [heap, ref].
RECURSIVE alloc(_, _), allocKids(_, _, _, _)
alloc(h, t) ==
    allocKids(Append(h, Fn([k \in DOMAIN t \ RefKeys |-> t[k]])), Len(h) + 1, t,
              DOMAIN t \cap RefKeys)

allocKids(h, a, t, ks) ==
    IF ks = {} THEN [heap |-> h, ref |-> a]
    ELSE LET k == CHOOSE x \in ks : TRUE
             r == alloc(h, t[k])
         IN  allocKids(setitem(r.heap, a, k, r.ref), a, t, ks \ {k})

-----------------------------------------------------------------------------
(* pydantic and copy *)

\* BaseModel.model_dump(mode="json"): a fresh tree of dicts holding the
\* record's fields; str, bool and None are their own JSON form.
model_dump(h, cfg) == alloc(h, Tree(h, cfg))

deepcopy_alias(h, a) == [heap |-> h, ref |-> a]

\* copy.deepcopy
deepcopy(h, a) == alloc(h, Tree(h, a))

\* The configuration schema: the graph-db fields are typed, none is nullable.
BoolFields == {"auto_create", "use_multi_db"}
StrFields == {"user_name", "db_name"}

schema_valid(t) ==
    /\ "text_mem" \in DOMAIN t
    /\ "config" \in DOMAIN t["text_mem"]
    /\ "graph_db" \in DOMAIN t["text_mem"]["config"] =>
          LET g == t["text_mem"]["config"]["graph_db"]["config"]
          IN  /\ \A k \in DOMAIN g \cap BoolFields : g[k] \in {"True", "False"}
              /\ \A k \in DOMAIN g \cap StrFields : g[k] # "None"

\* GeneralMemCubeConfig.model_validate: a fresh typed record, or no record
\* and a ValidationError.
model_validate(h, d) ==
    IF schema_valid(Tree(h, d))
    THEN LET r == alloc(h, Tree(h, d))
         IN  [heap |-> r.heap, raised |-> FALSE, ref |-> r.ref]
    ELSE [heap |-> h, raised |-> TRUE, ref |-> NoRef]

-----------------------------------------------------------------------------
(* merge_config_with_default *)

preserve_fields_but_model_schema == {"user_id", "cube_id", "config_filename"}

preserve_fields_and_text_mem ==
    {"user_id", "cube_id", "config_filename", "model_schema", "text_mem"}

preserve_fields == {"user_id", "cube_id", "config_filename", "model_schema"}

preserve_graph_fields_but_user_name == {"auto_create", "use_multi_db"}

preserve_graph_fields == {"auto_create", "user_name", "use_multi_db"}

\* existing_dict["text_mem"].get("config", {})
text_config(h, d) == get(h, getitem(h, d, "text_mem"), "config", NoRef)

\* Both dumps reach text_mem.config.graph_db.
both_have_graph_db(h, ed, dd) ==
    /\ "text_mem" \in keys(h, ed)
    /\ "text_mem" \in keys(h, dd)
    /\ "graph_db" \in keys(h, text_config(h, ed))
    /\ "graph_db" \in keys(h, text_config(h, dd))

\* for key, value in default_graph_config.items(): overwrite unless preserved
RECURSIVE overwrite_loop(_, _, _, _)
overwrite_loop(h, m, dgc, ks) ==
    IF ks = {} THEN h
    ELSE LET key == CHOOSE x \in ks : TRUE
         IN  overwrite_loop(IF key \notin preserve_graph_fields
                            THEN setitem(h, m, key, getitem(h, dgc, key))
                            ELSE h,
                            m, dgc, ks \ {key})

downgrade_rule_wrong_key(h, m, dgc) ==
    IF ~truthy(get(h, dgc, "use_multi_db", "True"))
    THEN IF truthy(get(h, m, "use_multi_db", "True"))
         THEN LET h1 == setitem(h, m, "use_multi_db", "False")
                  h2 == setitem(h1, m, "user_name", get(h1, m, "db_name", "None"))
              IN  setitem(h2, m, "db_name", get(h2, dgc, "user_name", "None"))
         ELSE h
    ELSE h

\* The use_multi_db downgrade, on the merged graph config m, after the loop.
downgrade_rule(h, m, dgc) ==
    IF ~truthy(get(h, dgc, "use_multi_db", "True"))
    THEN IF truthy(get(h, m, "use_multi_db", "True"))
         THEN LET h1 == setitem(h, m, "use_multi_db", "False")
                  h2 == setitem(h1, m, "user_name", get(h1, m, "db_name", "None"))
              IN  setitem(h2, m, "db_name", get(h2, dgc, "db_name", "None"))
         ELSE h
    ELSE h

\* preserved_graph_db: None, or a new dict {backend, config} whose config is
\* the merged graph config; [heap, ref].
merge_graph_db(h, ed, dd) ==
    IF both_have_graph_db(h, ed, dd)
    THEN LET existing_graph_db == getitem(h, text_config(h, ed), "graph_db")
             existing_graph_config == getitem(h, existing_graph_db, "config")
             default_graph_config ==
                 getitem(h, getitem(h, text_config(h, dd), "graph_db"), "config")
             c == deepcopy(h, existing_graph_config)
             merged_graph_config == c.ref
             h1 == overwrite_loop(c.heap, merged_graph_config, default_graph_config,
                                  keys(c.heap, default_graph_config))
             h2 == downgrade_rule(h1, merged_graph_config, default_graph_config)
         IN  [heap |-> Append(h2, [backend |-> getitem(h2, existing_graph_db, "backend"),
                                   config |-> merged_graph_config]),
              ref |-> Len(h2) + 1]
    ELSE [heap |-> h, ref |-> NoRef]

base_dict_existing(ed, dd) == ed

\* The dict the output starts from.
base_dict(ed, dd) == dd

\* for field in preserve_fields: if field in existing_dict: restore it
RECURSIVE restore_fields(_, _, _, _)
restore_fields(h, md, ed, fs) ==
    IF fs = {} THEN h
    ELSE LET field == CHOOSE x \in fs : TRUE
         IN  restore_fields(IF field \in keys(h, ed)
                            THEN setitem(h, md, field, getitem(h, ed, field))
                            ELSE h,
                            md, ed, fs \ {field})

restore_graph_db_config_only(h, md, p) ==
    IF p # NoRef /\ "text_mem" \in keys(h, md)
    THEN setitem(h, getitem(h, getitem(h, getitem(h, md, "text_mem"), "config"), "graph_db"),
                 "config", getitem(h, p, "config"))
    ELSE h

\* if preserved_graph_db and "text_mem" in merged_dict: put it in place
restore_graph_db(h, md, p) ==
    IF p # NoRef /\ "text_mem" \in keys(h, md)
    THEN setitem(h, getitem(h, getitem(h, md, "text_mem"), "config"), "graph_db", p)
    ELSE h

finish_unvalidated(h, md) ==
    LET r == alloc(h, Tree(h, md))
    IN  [heap |-> r.heap, outcome |-> "ok", merged_config |-> r.ref]

\* Validate the assembled dict and return the record; a ValidationError
\* propagates to the caller.
finish(h, md) ==
    LET v == model_validate(h, md)
    IN  [heap |-> v.heap,
         outcome |-> IF v.raised THEN "ValidationError" ELSE "ok",
         merged_config |-> v.ref]

\* The whole call, from the heap h and the two records' addresses.
merge_config_with_default(h, ec, dc) ==
    LET e == model_dump(h, ec)
        d == model_dump(e.heap, dc)
        g == merge_graph_db(d.heap, e.ref, d.ref)
        m == deepcopy(g.heap, base_dict(e.ref, d.ref))
        h1 == restore_fields(m.heap, m.ref, e.ref, preserve_fields)
        h2 == restore_graph_db(h1, m.ref, g.ref)
        f == finish(h2, m.ref)
    IN  [heap |-> f.heap, existing_dict |-> e.ref, default_dict |-> d.ref,
         preserved_graph_db |-> g.ref, merged_dict |-> m.ref,
         outcome |-> f.outcome, merged_config |-> f.merged_config]

-----------------------------------------------------------------------------
(* The records the caller can pass *)

\* A dict from a choice of value per key; Absent leaves the key out.
Dict(c) == Fn([k \in {x \in DOMAIN c : c[x] # Absent} |-> c[k]])

ExistingGraphConfigs ==
    {Dict(c) : c \in [auto_create : {"True", "False"},
                      user_name : {Absent, "old"},
                      use_multi_db : {Absent, "True", "False"},
                      db_name : {Absent, "A", "B"},
                      uri : {Absent, "A"}]}

DefaultGraphConfigs ==
    {Dict(c) : c \in [auto_create : {"True"},
                      user_name : {Absent, "new"},
                      use_multi_db : {Absent, "True", "False"},
                      db_name : {Absent, "A", "B"},
                      uri : {Absent, "B"}]}

\* text_mem.config, without or with a graph_db section
TextConfigs(fname, backends, gconfs) ==
    {[memory_filename |-> fname]} \cup
    {[memory_filename |-> fname, graph_db |-> [backend |-> b, config |-> g]] :
        b \in backends, g \in gconfs}

Record(id, ab, tb, tc) ==
    [user_id |-> id, cube_id |-> id, config_filename |-> id, model_schema |-> id,
     act_mem |-> [backend |-> ab],
     text_mem |-> [backend |-> tb, config |-> tc]]

ExistingRecords ==
    {Record("A", "kv_cache", "tree_text", tc) :
        tc \in TextConfigs("A", {"neo4j"}, ExistingGraphConfigs)}

DefaultRecords ==
    {Record("B", "uninitialized", "general_text", tc) :
        tc \in TextConfigs("B", {"neo4j", "nebular"}, DefaultGraphConfigs)}

-----------------------------------------------------------------------------
(* State machine *)

Init ==
    \E E \in ExistingRecords, D \in DefaultRecords :
        LET e == alloc(<<>>, E)
            d == alloc(e.heap, D)
        IN  /\ heap = d.heap
            /\ existing_config = e.ref
            /\ default_config = d.ref
            /\ calls = 0
            /\ arg_existing = e.ref
            /\ pre_existing = E
            /\ pre_default = D
            /\ existing_dict = NoRef
            /\ default_dict = NoRef
            /\ preserved_graph_db = NoRef
            /\ merged_dict = NoRef
            /\ outcome = "none"
            /\ merged_config = NoRef

\* One call merge_config_with_default(ec, default_config).
Call(ec) ==
    LET r == merge_config_with_default(heap, ec, default_config)
    IN  /\ heap' = r.heap
        /\ calls' = calls + 1
        /\ arg_existing' = ec
        /\ pre_existing' = Tree(heap, ec)
        /\ pre_default' = Tree(heap, default_config)
        /\ existing_dict' = r.existing_dict
        /\ default_dict' = r.default_dict
        /\ preserved_graph_db' = r.preserved_graph_db
        /\ merged_dict' = r.merged_dict
        /\ outcome' = r.outcome
        /\ merged_config' = r.merged_config
        /\ UNCHANGED <<existing_config, default_config>>

\* The caller merges its existing record with the default template.
Merge ==
    /\ calls = 0
    /\ Call(existing_config)

\* The caller merges the record it got back with the same template again.
Remerge ==
    /\ calls \in 1..(MaxCalls - 1)
    /\ outcome = "ok"
    /\ Call(merged_config)

Next == Merge \/ Remerge

Spec == Init /\ [][Next]_vars

-----------------------------------------------------------------------------
(* Vocabulary of the properties *)

IdentityFields == {"user_id", "cube_id", "config_filename", "model_schema"}
ProtectedGraphFields == {"auto_create", "user_name", "use_multi_db"}

Called == calls > 0
Returned == Called /\ outcome = "ok"

E == pre_existing                 \* existing, as passed to the latest call
D == pre_default                  \* default, as passed to the latest call
M == Tree(heap, merged_dict)      \* the tree the latest call assembled
R == Tree(heap, merged_config)    \* the record the latest call returned

HasGraphDb(t) == "graph_db" \in DOMAIN t["text_mem"]["config"]
GraphDb(t) == t["text_mem"]["config"]["graph_db"]
GraphConfig(t) == GraphDb(t)["config"]
Field(f, k) == IF k \in DOMAIN f THEN f[k] ELSE Absent

BothGraphDb == Called /\ HasGraphDb(E) /\ HasGraphDb(D)

\* t without its identity fields and without text_mem.config.graph_db
Rest(t) ==
    [k \in DOMAIN t \ IdentityFields |->
        IF k = "text_mem"
        THEN [x \in DOMAIN t[k] |->
                 IF x = "config"
                 THEN [y \in DOMAIN t[k][x] \ {"graph_db"} |-> t[k][x][y]]
                 ELSE t[k][x]]
        ELSE t[k]]

-----------------------------------------------------------------------------
(* Properties *)

\* C1: when both records have a graph_db section, existing has
\* use_multi_db = True and db_name = A, default has use_multi_db = False and
\* db_name = B, A # B, the merged graph config has use_multi_db = False,
\* user_name = A (existing's db_name before the merge) and db_name = B.
C1_MultiDbDowngrade ==
    (/\ BothGraphDb
     /\ Field(GraphConfig(E), "use_multi_db") = "True"
     /\ Field(GraphConfig(D), "use_multi_db") = "False"
     /\ "db_name" \in DOMAIN GraphConfig(E)
     /\ "db_name" \in DOMAIN GraphConfig(D)
     /\ GraphConfig(E)["db_name"] # GraphConfig(D)["db_name"])
    => /\ Field(GraphConfig(M), "use_multi_db") = "False"
       /\ Field(GraphConfig(M), "user_name") = GraphConfig(E)["db_name"]
       /\ Field(GraphConfig(M), "db_name") = GraphConfig(D)["db_name"]

\* C2: when both records have a graph_db section and both graph configs have
\* use_multi_db = False, the merged user_name and db_name equal existing's
\* user_name and db_name, whatever the default carries.
C2_NoOpDowngrade ==
    (/\ BothGraphDb
     /\ Field(GraphConfig(E), "use_multi_db") = "False"
     /\ Field(GraphConfig(D), "use_multi_db") = "False"
     /\ {"user_name", "db_name"} \subseteq DOMAIN GraphConfig(E))
    => /\ Field(GraphConfig(M), "user_name") = GraphConfig(E)["user_name"]
       /\ Field(GraphConfig(M), "db_name") = GraphConfig(E)["db_name"]

C3_Case == BothGraphDb /\ Field(GraphConfig(D), "use_multi_db") = "True"

C3_ProtectedFromExisting ==
    \A k \in ProtectedGraphFields :
        Field(GraphConfig(M), k) = Field(GraphConfig(E), k)

\* C3 as stated: with default use_multi_db = True, the merged auto_create,
\* user_name and use_multi_db equal existing's, and every other field of the
\* merged graph config equals default's value for that field.
C3_Original ==
    C3_Case =>
        /\ C3_ProtectedFromExisting
        /\ \A k \in DOMAIN GraphConfig(M) \ ProtectedGraphFields :
              /\ k \in DOMAIN GraphConfig(D)
              /\ GraphConfig(M)[k] = GraphConfig(D)[k]

\* C3 amended: with default use_multi_db = True, the merged auto_create,
\* user_name and use_multi_db equal existing's; every other field the default
\* carries has default's value in the merged graph config; every other field
\* only existing carries keeps existing's value; there are no further fields.
C3_ProtectedFieldPreservation ==
    C3_Case =>
        /\ C3_ProtectedFromExisting
        /\ \A k \in DOMAIN GraphConfig(D) \ ProtectedGraphFields :
              /\ k \in DOMAIN GraphConfig(M)
              /\ GraphConfig(M)[k] = GraphConfig(D)[k]
        /\ \A k \in DOMAIN GraphConfig(M) \ (ProtectedGraphFields \cup DOMAIN GraphConfig(D)) :
              /\ k \in DOMAIN GraphConfig(E)
              /\ GraphConfig(M)[k] = GraphConfig(E)[k]

\* an existing use_multi_db = False met a default use_multi_db = True, the
\* default overwrote db_name, and existing carries a field the default lacks
C3_Witness ==
    /\ C3_Case
    /\ Field(GraphConfig(E), "use_multi_db") = "False"
    /\ Field(GraphConfig(E), "user_name") = "old"
    /\ Field(GraphConfig(D), "user_name") = "new"
    /\ Field(GraphConfig(E), "db_name") = "A"
    /\ Field(GraphConfig(M), "db_name") = "B"
    /\ "uri" \in DOMAIN GraphConfig(E) \ DOMAIN GraphConfig(D)

\* C4: the record a successful call returns has existing's user_id, cube_id,
\* config_filename and model_schema.
C4_IdentityPreservation ==
    Returned =>
        \A f \in IdentityFields : f \in DOMAIN R /\ f \in DOMAIN E /\ R[f] = E[f]

\* a successful call whose default differs in the identity fields and whose
\* downgrade rule ran
C4_Witness ==
    /\ Returned
    /\ \A f \in IdentityFields : D[f] # E[f]
    /\ BothGraphDb
    /\ Field(GraphConfig(E), "use_multi_db") = "True"
    /\ Field(GraphConfig(R), "use_multi_db") = "False"

\* C5: in the record a successful call returns, every field that is neither
\* an identity field nor under text_mem.config.graph_db has default's value.
C5_DefaultPropagation == Returned => Rest(R) = Rest(D)

\* a successful call on records that differ outside identity and graph_db,
\* with graph-db merging
C5_Witness ==
    /\ Returned
    /\ Rest(E) # Rest(D)
    /\ E["text_mem"]["backend"] # D["text_mem"]["backend"]
    /\ E["text_mem"]["config"]["memory_filename"] # D["text_mem"]["config"]["memory_filename"]
    /\ E["act_mem"] # D["act_mem"]
    /\ preserved_graph_db # NoRef

\* C6: if existing or default lacks text_mem.config.graph_db, nothing is
\* preserved and the merged text_mem section is default's text_mem section.
C6_NoGraphDb ==
    (Called /\ ~(HasGraphDb(E) /\ HasGraphDb(D))) =>
        /\ preserved_graph_db = NoRef
        /\ M["text_mem"] = D["text_mem"]
        /\ outcome = "ok"
        /\ R["text_mem"] = D["text_mem"]

\* only existing has a graph_db section
C6_Witness ==
    /\ Called
    /\ HasGraphDb(E)
    /\ ~HasGraphDb(D)
    /\ ~HasGraphDb(R)

\* C7: a call ends with a returned record that satisfies the schema and is
\* the assembled tree, or with a ValidationError and no record; it is the
\* error whenever the assembled tree violates the schema.
C7_ValidationOutcome ==
    Called =>
        \/ /\ outcome = "ok"
           /\ merged_config # NoRef
           /\ schema_valid(M)
           /\ R = M
        \/ /\ outcome = "ValidationError"
           /\ merged_config = NoRef
           /\ ~schema_valid(M)

\* the downgrade rule made user_name null and the call raised
C7_Witness ==
    /\ BothGraphDb
    /\ outcome = "ValidationError"
    /\ Field(GraphConfig(E), "user_name") = "old"
    /\ Field(GraphConfig(M), "user_name") = "None"

\* C8: after a call, the two records passed in and their dumps have the
\* values the records had at call entry.
C8_NonMutation ==
    Called =>
        /\ Tree(heap, arg_existing) = pre_existing
        /\ Tree(heap, default_config) = pre_default
        /\ Tree(heap, existing_dict) = pre_existing
        /\ Tree(heap, default_dict) = pre_default

\* a call that rewrote identity fields, graph fields and ran the downgrade
C8_Witness ==
    /\ BothGraphDb
    /\ M # D
    /\ GraphConfig(M) # GraphConfig(E)
    /\ Field(GraphConfig(E), "use_multi_db") = "True"
    /\ Field(GraphConfig(M), "use_multi_db") = "False"
    /\ E["user_id"] # D["user_id"]

\* C9: when both records have a graph_db section, the merged graph_db section
\* is the computed {backend, config} pair, with existing's backend.
C9_BackendTag ==
    BothGraphDb =>
        /\ preserved_graph_db # NoRef
        /\ getitem(heap, text_config(heap, merged_dict), "graph_db") = preserved_graph_db
        /\ DOMAIN GraphDb(M) = {"backend", "config"}
        /\ GraphDb(M)["backend"] = GraphDb(E)["backend"]
        /\ Returned => GraphDb(R) = GraphDb(M)

\* default's backend differs and default's db_name went into the config
C9_Witness ==
    /\ BothGraphDb
    /\ Returned
    /\ GraphDb(D)["backend"] # GraphDb(E)["backend"]
    /\ Field(GraphConfig(E), "db_name") = "A"
    /\ Field(GraphConfig(R), "db_name") = "B"

\* C10: merging the returned record with the same default again succeeds
\* and returns an equal record.
C10_Idempotent ==
    calls >= 2 => (outcome = "ok" /\ R = pre_existing)

\* a repeated merge of a record that a downgrade had rewritten
C10_Witness ==
    /\ calls >= 2
    /\ outcome = "ok"
    /\ HasGraphDb(R)
    /\ Field(GraphConfig(R), "use_multi_db") = "False"
    /\ Field(GraphConfig(R), "user_name") = "B"
    /\ Field(GraphConfig(R), "db_name") = "B"

====
